---- MODULE Spec2Model ----
(***************************************************************************)
(* Minecraft-Pack-Manager: the filename classifier (Componentize), the      *)
(* identity key of a mod record, the gathering of the profile folders, the *)
(* snapshot differ and the snapshot run that ties them together.           *)
(*                                                                         *)
(* Strings are sequences of one-character strings, so that splitting,      *)
(* prefix/suffix tests and the regular expressions of the source are       *)
(* computed character by character.                                        *)
(***************************************************************************)
EXTENDS Integers, Sequences, FiniteSets, TLC

VARIABLES
    defaultMinecraftVersion,  \* this.defaultMinecraftVersion
    defaultLoader,            \* this.defaultLoader
    validMinecraftVersions,   \* this.validMinecraftVersions
    fetch,                    \* the promise of fetchValidVersions(): pending / resolved / rejected
    filename,                 \* the file handed to parser.parse
    result,                   \* the object parser.parse returned for it (NoResult before the call)
    modPair,                  \* two mod records handed to getModKey
    keyPair,                  \* the keys getModKey returned for them (NoKeys before the call)
    modsFolders,              \* the profiles whose mods folder exists on disk
    jarFiles,                 \* per profile and file name: 0 (no such file), the file's mtime,
                              \* or -1 (a directory entry whose fs.stat throws)
    edits,                    \* the clock of the user's file operations
    latestSnapshot,           \* latest_snapshot.json
    snapshotCommit,           \* the diff_snapshot_<time> / full_snapshot_<time> report the last run wrote
    pc,                       \* where the process is inside createSnapshot
    gathered,                 \* { data, duplicates } returned by gatherProfileMods
    previousSnapshot,         \* what getPreviousSnapshot returned
    differences,              \* what computeSnapshotDiff returned
    snapshotsFolder,          \* the snapshots folder: per file name 0 (no such file) or the
                              \* file's birthtime
    Maximum_Snapshots,        \* settings.get("Maximum_Snapshots")
    now,                      \* the clock the report names and birthtimes are taken from
    limitCall,                \* the last snapshotLimit call: the folder it found, the report
                              \* its caller wrote before (NoCall before the first call)
    globalLogQueue,           \* logger.js: ungrouped messages held back
    globalGroupingQueue,      \* logger.js: the Tags with a grouping, oldest first
    tags,                     \* per Tag: logs, grouping, active, finished
    console,                  \* what console.log has written, in order
    handed,                   \* the number of messages handed to the logger so far
    begun,                    \* the Tags whose beginGrouping took effect, in call order
    open                      \* the Tags with a beginGrouping call no endGrouping call followed

classifierVars == <<defaultMinecraftVersion, defaultLoader, validMinecraftVersions, fetch,
                    filename, result>>
keyVars == <<modPair, keyPair>>
diskVars == <<modsFolders, jarFiles, edits, latestSnapshot, snapshotCommit>>
runVars == <<pc, gathered, previousSnapshot, differences>>
limitVars == <<snapshotsFolder, Maximum_Snapshots, now, limitCall>>
loggerVars == <<globalLogQueue, globalGroupingQueue, tags, console, handed, begun, open>>

vars == <<classifierVars, keyVars, diskVars, runVars, limitVars, loggerVars>>

----------------------------------------------------------------------------
(* Bounds and inputs *)

\* Largest number of pieces a generated filename is glued from.
MaxPieces == 3

\* The JavaScript null / undefined.
Null == <<"null">>

sUnknown  == <<"u","n","k","n","o","w","n">>
sNeoforge == <<"n","e","o","f","o","r","g","e">>
sFabric   == <<"f","a","b","r","i","c">>
sForge    == <<"f","o","r","g","e">>
sNf       == <<"n","f">>
sNeo      == <<"n","e","o">>
sFor      == <<"f","o","r">>
sMc       == <<"m","c">>
sMinecraft == <<"m","i","n","e","c","r","a","f","t">>
sJar      == <<".","j","a","r">>
sDotX     == <<".","x">>
sOneDot   == <<"1",".">>
sDungeonsAndTaverns ==
    <<"d","u","n","g","e","o","n","s","-","a","n","d","-","t","a","v","e","r","n","s">>
sDungeons == <<"d","u","n","g","e","o","n","s">>
sDynamicFps == <<"d","y","n","a","m","i","c","-","f","p","s">>
sDynamic  == <<"d","y","n","a","m","i","c">>

\* The arguments of `new Componentize('1.21.1', 'neoforge')`.
ArgMinecraftVersion == <<"1",".","2","1",".","1">>
ArgLoader == sNeoforge

\* The version ids the manifest answers with when the fetch succeeds.
Manifest == << <<"1",".","2","0",".","1">>, <<"1",".","1","9",".","2">> >>

\* Pieces and separators the generated filenames are glued from.
Pieces ==
    { <<"m","y","_","m","o","d">>,     \* a name word with an underscore in it
      <<"2",".","0">>,                 \* version-shaped, never a platform version
      <<"1",".","2","0",".","1">>,     \* a platform version of the manifest
      <<"1",".","2","0",".","x">>,     \* wildcard platform version
      sFabric,                         \* a loader name
      <<"M","C">> }                    \* a filler word, upper case

Separators == { <<"-">>, <<"@">>, <<"+">> }

RECURSIVE Glue(_, _)
\* ps[1] ss[1] ps[2] ss[2] ... ps[n]
Glue(ps, ss) ==
    IF Len(ps) = 0 THEN <<>>
    ELSE IF Len(ps) = 1 THEN ps[1]
    ELSE ps[1] \o ss[1] \o Glue(Tail(ps), Tail(ss))

\* The filenames the documentation classifies by way of example.
sExampleMod ==
    <<"e","x","a","m","p","l","e","m","o","d","-","2",".","0",".","1","+",
      "1",".","2","0",".","1","-","f","a","b","r","i","c",".","j","a","r">>
sMyMod == <<"m","y","m","o","d",".","j","a","r">>

\* Filenames that meet the special-case name fixes.
sDynamicFpsFile ==
    <<"d","y","n","a","m","i","c","-","f","p","s","-","2",".","0","+",
      "1",".","2","0",".","1",".","j","a","r">>
sDungeonsFile ==
    <<"D","u","n","g","e","o","n","s","-","a","n","d","-","T","a","v","e","r","n","s",
      "-","v","3",".","j","a","r">>

Examples == { sExampleMod, sMyMod, sDynamicFpsFile, sDungeonsFile }

\* gatherProfileMods only hands over directory entries that end with '.jar'.
IsFileName(f) ==
    \E n \in 0..MaxPieces :
        \E ps \in [1..n -> Pieces] :
            \E ss \in [1..(IF n = 0 THEN 0 ELSE n - 1) -> Separators] :
                f = Glue(ps, ss) \o sJar

----------------------------------------------------------------------------
(* String helpers: what the JavaScript string methods compute *)

Digits == {"0","1","2","3","4","5","6","7","8","9"}
UpperAlpha == <<"A","B","C","D","E","F","G","H","I","J","K","L","M",
                "N","O","P","Q","R","S","T","U","V","W","X","Y","Z">>
LowerAlpha == <<"a","b","c","d","e","f","g","h","i","j","k","l","m",
                "n","o","p","q","r","s","t","u","v","w","x","y","z">>
Letters == { UpperAlpha[i] : i \in 1..26 } \cup { LowerAlpha[i] : i \in 1..26 }

\* \w of a JavaScript regular expression
WordChars == Letters \cup Digits \cup {"_"}

UpperSet == { UpperAlpha[i] : i \in 1..26 }
LowerOf == [c \in UpperSet |-> LowerAlpha[CHOOSE i \in 1..26 : UpperAlpha[i] = c]]

\* one character of s.toLowerCase()
LowerChar(c) == IF c \in UpperSet THEN LowerOf[c] ELSE c

ToLowerCase(s) == [i \in 1..Len(s) |-> LowerChar(s[i])]

StartsWith(s, pre) ==
    /\ Len(pre) <= Len(s)
    /\ SubSeq(s, 1, Len(pre)) = pre

EndsWith(s, suf) ==
    /\ Len(suf) <= Len(s)
    /\ SubSeq(s, Len(s) - Len(suf) + 1, Len(s)) = suf

\* s.replace(/<suf>$/i, "")
StripSuffixCI(s, suf) ==
    IF Len(suf) <= Len(s) /\ ToLowerCase(SubSeq(s, Len(s) - Len(suf) + 1, Len(s))) = suf
    THEN SubSeq(s, 1, Len(s) - Len(suf))
    ELSE s

\* s.replace(/^<pre>/i, "")
StripPrefixCI(s, pre) ==
    IF Len(pre) <= Len(s) /\ ToLowerCase(SubSeq(s, 1, Len(pre))) = pre
    THEN SubSeq(s, Len(pre) + 1, Len(s))
    ELSE s

RECURSIVE SplitAcc(_, _, _, _)
SplitAcc(s, i, cur, seps) ==
    IF i > Len(s) THEN << cur >>
    ELSE IF s[i] \in seps THEN << cur >> \o SplitAcc(s, i + 1, <<>>, seps)
    ELSE SplitAcc(s, i + 1, Append(cur, s[i]), seps)

\* s.split(<one of seps>).filter(t => t): the non-empty runs between separators
SplitNonEmpty(s, seps) ==
    SelectSeq(SplitAcc(s, 1, <<>>, seps), LAMBDA t : t # <<>>)

RECURSIVE Join(_, _)
Join(toks, sep) ==
    IF Len(toks) = 0 THEN <<>>
    ELSE IF Len(toks) = 1 THEN toks[1]
    ELSE toks[1] \o sep \o Join(Tail(toks), sep)

\* arr.includes(x)
Includes(arr, x) == \E i \in 1..Len(arr) : arr[i] = x

\* tokens.splice(i, 1)
RemoveAt(toks, i) == SubSeq(toks, 1, i - 1) \o SubSeq(toks, i + 1, Len(toks))

----------------------------------------------------------------------------
(* Componentize *)

\* constructor: this.defaultLoader = defaultLoader || "unknown"
ConstructorLoader(arg) == IF arg = Null \/ arg = <<>> THEN sUnknown ELSE arg

\* this.loaderAliases
LoaderAliases == { <<sNf, sNeoforge>>, <<sNeo, sNeoforge>> }
KnownLoaders == { sNeoforge, sFabric, sForge }

IsAlias(lower) == \E a \in LoaderAliases : a[1] = lower
AliasOf(lower) == (CHOOSE a \in LoaderAliases : a[1] = lower)[2]

RECURSIVE DigitRun(_, _)
\* index of the first character at or after i that is not a digit
DigitRun(s, i) == IF i <= Len(s) /\ s[i] \in Digits THEN DigitRun(s, i + 1) ELSE i

\* versionRegex = /^v?\d+(\.\d+)+([-\w\.]*)?$/i
\* The digits and the dot belong to the class of the tail, so a string matches
\* exactly when, after an optional v, it starts with digits, a dot and a digit
\* and every later character is in [-\w.].
IsVersion(token) ==
    LET start == IF Len(token) >= 1 /\ LowerChar(token[1]) = "v" THEN 2 ELSE 1
        afterInt == DigitRun(token, start)
    IN  /\ afterInt > start
        /\ afterInt + 1 <= Len(token)
        /\ token[afterInt] = "."
        /\ token[afterInt + 1] \in Digits
        /\ \A k \in (afterInt + 2)..Len(token) : token[k] \in WordChars \cup {"-", "."}

NormalizeVersion(token) == StripSuffixCI(StripPrefixCI(token, sMc), sDotX)

IsValidMinecraftVersion(token, known) ==
    LET norm == NormalizeVersion(token)
    IN  IF Len(known) > 0 THEN Includes(known, norm)
        ELSE StartsWith(norm, sOneDot)

IsExtraneous(token) == ToLowerCase(token) \in { sFor, sMc, sMinecraft }

FixModName(name) ==
    LET lower == ToLowerCase(name)
    IN  IF StartsWith(lower, sDungeonsAndTaverns) THEN sDungeons
        ELSE IF StartsWith(lower, sDynamicFps) THEN sDynamic
        ELSE name

\* parse, step 1
Cleaned(fileName) == StripSuffixCI(fileName, sJar)

\* a tokenizer that forgot the "@"
Tokenize_HyphenOnly(cleaned) == SplitNonEmpty(cleaned, {"-"})

\* parse, step 2
Tokenize(cleaned) == SplitNonEmpty(cleaned, {"-", "@"})

IsLoaderToken(token) ==
    LET lower == ToLowerCase(token)
    IN  IsAlias(lower) \/ lower \in KnownLoaders

\* parse, step 3: the tokens the filter keeps
FilterTokens(tokens) ==
    SelectSeq(tokens, LAMBDA t : ~IsLoaderToken(t) /\ ~IsExtraneous(ToLowerCase(t)))

RECURSIVE LoaderFrom(_, _)
\* parse, step 3: the loader the filter leaves behind (the last loader token wins)
LoaderFrom(tokens, loader) ==
    IF Len(tokens) = 0 THEN loader
    ELSE LET lower == ToLowerCase(tokens[1])
         IN  LoaderFrom(Tail(tokens),
                        IF IsAlias(lower) THEN AliasOf(lower)
                        ELSE IF lower \in KnownLoaders THEN lower
                        ELSE loader)

HasPlus(token) == \E i \in 1..Len(token) : token[i] = "+"

\* tokens.findIndex(t => t.includes("+")), 1-based; 0 when there is none
CompoundIndex(tokens) ==
    IF \E i \in 1..Len(tokens) : HasPlus(tokens[i])
    THEN CHOOSE i \in 1..Len(tokens) :
            HasPlus(tokens[i]) /\ \A j \in 1..(i - 1) : ~HasPlus(tokens[j])
    ELSE 0

\* the two halves of the compound token taken the wrong way round
CompoundDirect_Swapped(parts) == [modVersion |-> parts[2], mcVersion |-> parts[1]]

\* parse, step 4, no version-shaped token before the compound token
CompoundDirect(parts) == [modVersion |-> parts[1], mcVersion |-> parts[2]]

\* the preceding token always glued to the left half, the catalog never asked
CompoundAfterVersion_AlwaysGlue(prevToken, compound, parts, known) ==
    [modVersion |-> prevToken \o <<"-">> \o parts[1], mcVersion |-> parts[2]]

\* parse, step 4, a version-shaped token before the compound token
CompoundAfterVersion(prevToken, compound, parts, known) ==
    IF IsValidMinecraftVersion(prevToken, known)
    THEN [modVersion |-> compound, mcVersion |-> NormalizeVersion(prevToken)]
    ELSE [modVersion |-> prevToken \o <<"-">> \o parts[1], mcVersion |-> parts[2]]

\* parse, step 4
CompoundBranch(tokens, known) ==
    LET ci == CompoundIndex(tokens)
        compound == tokens[ci]
        parts == SplitNonEmpty(compound, {"+"})
        hasPrev == ci > 1 /\ IsVersion(tokens[ci - 1])
    IN  IF Len(parts) = 2
        THEN IF hasPrev
             THEN LET v == CompoundAfterVersion(tokens[ci - 1], compound, parts, known)
                  IN  [modName |-> Join(SubSeq(RemoveAt(tokens, ci - 1), 1, ci - 2), <<"-">>),
                       modVersion |-> v.modVersion, mcVersion |-> v.mcVersion]
             ELSE LET v == CompoundDirect(parts)
                  IN  [modName |-> Join(SubSeq(tokens, 1, ci - 1), <<"-">>),
                       modVersion |-> v.modVersion, mcVersion |-> v.mcVersion]
        ELSE [modName |-> Join(SubSeq(tokens, 1, ci - 1), <<"-">>),
              modVersion |-> compound, mcVersion |-> sUnknown]

\* parse, step 5: the indices of the version-shaped tokens, ascending
VersionIndices(tokens) ==
    LET RECURSIVE From(_)
        From(i) == IF i > Len(tokens) THEN <<>>
                   ELSE IF IsVersion(tokens[i]) THEN <<i>> \o From(i + 1)
                   ELSE From(i + 1)
    IN  From(1)

\* parse, step 5, exactly one version-shaped token
OneVersion(tokens, vi, known) ==
    LET modName == Join(SubSeq(tokens, 1, vi - 1), <<"-">>)
        candidate == tokens[vi]
    IN  IF IsValidMinecraftVersion(candidate, known)
        THEN [modName |-> modName,
              modVersion |-> IF modName = <<>> THEN candidate ELSE Null,
              mcVersion |-> NormalizeVersion(candidate)]
        ELSE [modName |-> modName, modVersion |-> candidate, mcVersion |-> sUnknown]

\* parse, step 5, two or more version-shaped tokens: which is the platform's
PickVersions(firstVersion, secondVersion, known) ==
    IF IsValidMinecraftVersion(firstVersion, known)
    THEN [modVersion |-> secondVersion, mcVersion |-> NormalizeVersion(firstVersion)]
    ELSE IF IsValidMinecraftVersion(secondVersion, known)
    THEN [modVersion |-> firstVersion, mcVersion |-> NormalizeVersion(secondVersion)]
    ELSE [modVersion |-> firstVersion, mcVersion |-> NormalizeVersion(secondVersion)]

\* parse, step 5
PlainBranch(tokens, cleaned, known) ==
    LET versionIndices == VersionIndices(tokens)
    IN  IF Len(versionIndices) = 0
        THEN [modName |-> cleaned, modVersion |-> Null, mcVersion |-> sUnknown]
        ELSE IF Len(versionIndices) = 1
        THEN OneVersion(tokens, versionIndices[1], known)
        ELSE LET v == PickVersions(tokens[versionIndices[1]], tokens[versionIndices[2]], known)
             IN  [modName |-> Join(SubSeq(tokens, 1, versionIndices[1] - 1), <<"-">>),
                  modVersion |-> v.modVersion, mcVersion |-> v.mcVersion]

\* parse, step 7
StripDotX(mcVersion) == StripSuffixCI(mcVersion, sDotX)

\* parse, step 8
FinalModVersion(modVersion, mcVersion) ==
    IF modVersion = Null /\ mcVersion # sUnknown THEN mcVersion ELSE modVersion

\* the name without its fallback
FinalName_NoFallback(modName, cleaned) == modName

\* parse, step 9: name: modName || cleaned
FinalName(modName, cleaned) == IF modName # <<>> THEN modName ELSE cleaned

\* parse, step 9: the valid flag
ValidFlag(mcVersion, known) ==
    IF Len(known) > 0
    THEN \E i \in 1..Len(known) : StartsWith(known[i], mcVersion) \/ known[i] = mcVersion
    ELSE FALSE

Parse(fileName, known) ==
    LET cleaned == Cleaned(fileName)
        all == Tokenize(cleaned)
        loader == LoaderFrom(all, sUnknown)
        tokens == FilterTokens(all)
        b == IF CompoundIndex(tokens) # 0
             THEN CompoundBranch(tokens, known)
             ELSE PlainBranch(tokens, cleaned, known)
        modName == FixModName(b.modName)
        mcVersion == StripDotX(b.mcVersion)
    IN  [mod |-> [name |-> FinalName(modName, cleaned),
                  version |-> FinalModVersion(b.modVersion, mcVersion)],
         minecraft |-> [version |-> mcVersion,
                        loader |-> loader,
                        valid |-> ValidFlag(mcVersion, known)]]

NoResult ==
    [mod |-> [name |-> Null, version |-> Null],
     minecraft |-> [version |-> Null, loader |-> Null, valid |-> FALSE]]

----------------------------------------------------------------------------
(* The profile folders and the values a snapshot run starts from *)

\* session Profiles: the caller-supplied order of the profile folders (the
\* first two of the list)
Profiles == << "1. Library", "2. Optimization" >>

sFooJar == <<"f","o","o",".","j","a","r">>
sFooTwoJar == <<"f","o","o","-","2",".","0","-","n","f",".","j","a","r">>
sBarJar == <<"b","a","r","-","1",".","0",".","j","a","r">>

\* the jar files a mods folder may hold, in the order readdir lists them
ModFiles == << sBarJar, sFooTwoJar, sFooJar >>

ProfileSet == { Profiles[i] : i \in 1..Len(Profiles) }
ModFileSet == { ModFiles[i] : i \in 1..Len(ModFiles) }

NoFiles == [p \in ProfileSet |-> [f \in ModFileSet |-> 0]]

\* latest_snapshot.json does not exist. When it exists, json tells what
\* JSON.parse makes of its text: "snapshot" (the array a run wrote, held in
\* content), "unparseable" (JSON.parse throws), "object" (a value that is
\* not an array, such as {}) or "entries" (an array whose entries are not
\* profile records, such as [{}])
NoLatest == [exists |-> FALSE, json |-> "snapshot", content |-> <<>>]

\* an entry of a parsed array that has no paths property
NotAProfile == [junk |-> TRUE]

\* no report file written yet
NoCommit == [kind |-> "none", content |-> <<>>, time |-> 0]

NothingGathered == [data |-> <<>>, duplicates |-> <<>>]

\* the {} getPreviousSnapshot returns when there is no readable file
EmptyObject == [isArray |-> FALSE, items |-> <<>>]

\* computeSnapshotDiff returned false
NoDifferences == [truthy |-> FALSE, report |-> <<>>]

NoPair == <<>>
NoKeys == <<>>

----------------------------------------------------------------------------
(* The state machine: one classifier, its catalog fetch in flight *)

\* new Componentize('1.21.1', 'neoforge'): the state the constructor leaves
\* Largest number of reports earlier runs left in the snapshots folder.
MaxOld == 3

\* Largest number of createSnapshot runs that write a report.
MaxRuns == 2

\* Largest answer to the prompt for the snapshot limit.
MaxMaximum == 2

\* Largest number of messages handed to the logger.
MaxMessages == 3

\* Largest number of groupings begun.
MaxGroups == 3

\* diff_snapshot_<time>.txt / full_snapshot_<time>.txt, latest_snapshot.json
SnapshotFileName(kind, time) == << kind, "_snapshot_", time, ".txt" >>
LatestSnapshotFile == << "latest_snapshot", ".json" >>

SnapshotFiles ==
    { LatestSnapshotFile }
    \cup { SnapshotFileName(kind, time) :
              kind \in { "diff", "full" }, time \in 1..(MaxOld + MaxRuns) }

NoSnapshots == [file \in SnapshotFiles |-> 0]
NoFile == << >>
NoCall == [called |-> FALSE, by |-> "nobody", found |-> NoSnapshots, written |-> NoFile]

\* DefaultSettings.Maximum_Snapshots
DefaultMaximum == 5

\* no snapshot folder content, the default limit, no snapshotLimit call yet
LimitIdle ==
    /\ snapshotsFolder = NoSnapshots
    /\ Maximum_Snapshots = DefaultMaximum
    /\ now = 1
    /\ limitCall = NoCall

\* the Tag instances of the model
TagSet == { "SNAPSHOTS", "DUPLICATES" }

\* new Tag(...): logs = [], grouping = active = finished = false
NewTag == [logs |-> << >>, grouping |-> FALSE, active |-> FALSE, finished |-> FALSE]

\* logger.js as loaded: both global queues empty, nothing written
LoggerIdle ==
    /\ globalLogQueue = << >>
    /\ globalGroupingQueue = << >>
    /\ tags = [t \in TagSet |-> NewTag]
    /\ console = << >>
    /\ handed = 0
    /\ begun = << >>
    /\ open = {}

Constructed ==
    /\ defaultMinecraftVersion = ArgMinecraftVersion
    /\ defaultLoader = ConstructorLoader(ArgLoader)
    /\ validMinecraftVersions = <<>>
    /\ fetch = "pending"

\* no getModKey call is under way
KeyIdle ==
    /\ modPair = NoPair
    /\ keyPair = NoKeys

\* a fresh installation: no profile folder, no snapshot written, no run started
SnapshotIdle ==
    /\ modsFolders = {}
    /\ jarFiles = NoFiles
    /\ edits = 0
    /\ latestSnapshot = NoLatest
    /\ snapshotCommit = NoCommit
    /\ pc = "exited"
    /\ gathered = NothingGathered
    /\ previousSnapshot = EmptyObject
    /\ differences = NoDifferences

Init ==
    /\ Constructed
    /\ (IsFileName(filename) \/ filename \in Examples)
    /\ result = NoResult
    /\ KeyIdle
    /\ SnapshotIdle
    /\ LimitIdle
    /\ LoggerIdle

\* fetchValidVersions: the manifest arrived
FetchResolve ==
    /\ fetch = "pending"
    /\ fetch' = "resolved"
    /\ validMinecraftVersions' = Manifest
    /\ UNCHANGED <<defaultMinecraftVersion, defaultLoader, filename, result>>
    /\ UNCHANGED <<keyVars, diskVars, runVars, limitVars, loggerVars>>

\* fetchValidVersions: the request failed, the catch block only logs
FetchReject ==
    /\ fetch = "pending"
    /\ fetch' = "rejected"
    /\ UNCHANGED <<defaultMinecraftVersion, defaultLoader, validMinecraftVersions,
                   filename, result>>
    /\ UNCHANGED <<keyVars, diskVars, runVars, limitVars, loggerVars>>

\* details = parser.parse(file)
ParseFile ==
    /\ result' = Parse(filename, validMinecraftVersions)
    /\ UNCHANGED <<defaultMinecraftVersion, defaultLoader, validMinecraftVersions,
                   fetch, filename>>
    /\ UNCHANGED <<keyVars, diskVars, runVars, limitVars, loggerVars>>

Next == FetchResolve \/ FetchReject \/ ParseFile

Spec == Init /\ [][Next]_vars

----------------------------------------------------------------------------
(* What the claims speak about *)

Parsed == result # NoResult

\* a step in which a parse delivers a result: the catalog and the file stay,
\* the result changes (a parse that returns what is already there changes
\* nothing, and nothing else writes the result)
Classifies ==
    /\ UNCHANGED <<validMinecraftVersions, fetch, filename>>
    /\ result' # result

\* the token stream of the current file after extension, loader and filler removal
StreamOf(f) == FilterTokens(Tokenize(Cleaned(f)))

HasLoaderToken(f) ==
    LET all == Tokenize(Cleaned(f)) IN \E i \in 1..Len(all) : IsLoaderToken(all[i])

\* a token L+R: one '+', something on both sides
PlusPositions(t) == { k \in 1..Len(t) : t[k] = "+" }
IsPair(t) ==
    /\ Cardinality(PlusPositions(t)) = 1
    /\ t[1] # "+"
    /\ t[Len(t)] # "+"
LeftOf(t) == SubSeq(t, 1, (CHOOSE k \in PlusPositions(t) : TRUE) - 1)
RightOf(t) == SubSeq(t, (CHOOSE k \in PlusPositions(t) : TRUE) + 1, Len(t))

HyphenJoin(toks) == Join(toks, <<"-">>)

\* the name made of the tokens toks: their hyphen-join after the special-case
\* fixes, the extension-stripped filename when there are none
NameFrom(toks, f) == IF Len(toks) = 0 THEN Cleaned(f) ELSE FixModName(HyphenJoin(toks))

\* a token version-shaped and recognized as a platform version under the catalog known
Recognized(t, known) == IsVersion(t) /\ IsValidMinecraftVersion(t, known)

----------------------------------------------------------------------------
(* C1 *)

\* C1 as stated: whenever the token stream holds a compound token L+R that no
\* version-shaped token immediately precedes, the returned mod version is L,
\* the platform version is exactly R and the name is the hyphen-join of the
\* tokens before the compound token.
C1_CompoundExact ==
    Parsed =>
        LET toks == StreamOf(filename)
        IN  \A i \in 1..Len(toks) :
                (IsPair(toks[i]) /\ (i = 1 \/ ~IsVersion(toks[i - 1]))) =>
                    /\ result.mod.version = LeftOf(toks[i])
                    /\ result.minecraft.version = RightOf(toks[i])
                    /\ result.mod.name = HyphenJoin(SubSeq(toks, 1, i - 1))

\* the first token with a '+' is a pair L+R and no version-shaped token precedes it
DirectCompoundCase(f) ==
    LET toks == StreamOf(f)
        ci == CompoundIndex(toks)
    IN  /\ ci # 0
        /\ IsPair(toks[ci])
        /\ (ci = 1 \/ ~IsVersion(toks[ci - 1]))

\* C1 amended: when the first token containing '+' is a pair L+R that no
\* version-shaped token immediately precedes, the mod version is L, the
\* platform version is R without a trailing ".x", and the name is the
\* hyphen-join of the tokens before it after the special-case fixes, or the
\* extension-stripped filename when no token precedes it.
C1_CompoundFirst ==
    (Parsed /\ DirectCompoundCase(filename)) =>
        LET toks == StreamOf(filename)
            ci == CompoundIndex(toks)
        IN  /\ result.mod.version = LeftOf(toks[ci])
            /\ result.minecraft.version = StripSuffixCI(RightOf(toks[ci]), sDotX)
            /\ result.mod.name = NameFrom(SubSeq(toks, 1, ci - 1), filename)

\* C1 witness: the documented example has been classified
C1_Witness ==
    /\ filename = sExampleMod
    /\ DirectCompoundCase(filename)
    /\ result.mod.name = <<"e","x","a","m","p","l","e","m","o","d">>
    /\ result.mod.version = <<"2",".","0",".","1">>
    /\ result.minecraft.version = <<"1",".","2","0",".","1">>
    /\ result.minecraft.loader = sFabric

----------------------------------------------------------------------------
(* C2 *)

\* the tokens of f that are recognized platform versions under the catalog known
RecognizedTokens(f, known) ==
    LET all == Tokenize(Cleaned(f))
    IN  { i \in 1..Len(all) : Recognized(all[i], known) }

\* C2 as stated: a parse of a filename with exactly one recognized platform
\* version token and no loader token returns that token, normalized, as the
\* platform version and the loader configured at construction as the loader.
C2_DefaultLoader ==
    [][(Classifies
        /\ Cardinality(RecognizedTokens(filename, validMinecraftVersions)) = 1
        /\ ~HasLoaderToken(filename)) =>
            LET all == Tokenize(Cleaned(filename))
                i == CHOOSE k \in RecognizedTokens(filename, validMinecraftVersions) : TRUE
            IN  /\ result'.minecraft.version = NormalizeVersion(all[i])
                /\ result'.minecraft.loader = defaultLoader]_vars

----------------------------------------------------------------------------
(* C3 *)

NoVersionCase(f) ==
    LET toks == StreamOf(f)
    IN  /\ CompoundIndex(toks) = 0
        /\ Len(VersionIndices(toks)) = 0

\* C3 as stated: a filename without a version-shaped and without a compound
\* token gets the extension-stripped filename as name, no version, the
\* default platform version of the constructor and, without a loader token,
\* the default loader of the constructor.
C3_NoVersionDefaults ==
    (Parsed /\ NoVersionCase(filename)) =>
        /\ result.mod.name = Cleaned(filename)
        /\ result.mod.version = Null
        /\ result.minecraft.version = defaultMinecraftVersion
        /\ (~HasLoaderToken(filename) => result.minecraft.loader = defaultLoader)

----------------------------------------------------------------------------
(* C4 *)

\* no compound token, two or more version-shaped tokens
TwoVersionsCase(f) ==
    LET toks == StreamOf(f)
    IN  /\ CompoundIndex(toks) = 0
        /\ Len(VersionIndices(toks)) >= 2

\* C4 as stated: of the first two version-shaped tokens, the one that alone
\* is a recognized platform version becomes the platform version and the
\* other the mod version; when neither or both are recognized the later one
\* becomes the platform version and the earlier one the mod version; the
\* name comes from the tokens before the first version token.
C4_LaterWinsTie ==
    [][(Classifies /\ TwoVersionsCase(filename)) =>
            LET toks == StreamOf(filename)
                vi == VersionIndices(toks)
                first == toks[vi[1]]
                second == toks[vi[2]]
                onlyFirst == /\ Recognized(first, validMinecraftVersions)
                             /\ ~Recognized(second, validMinecraftVersions)
            IN  /\ result'.minecraft.version =
                        NormalizeVersion(IF onlyFirst THEN first ELSE second)
                /\ result'.mod.version = (IF onlyFirst THEN second ELSE first)
                /\ result'.mod.name = NameFrom(SubSeq(toks, 1, vi[1] - 1), filename)]_vars

----------------------------------------------------------------------------
(* C5 *)

PrecededCompoundCase(f) ==
    LET toks == StreamOf(f)
        ci == CompoundIndex(toks)
    IN  /\ ci > 1
        /\ IsPair(toks[ci])
        /\ IsVersion(toks[ci - 1])

----------------------------------------------------------------------------
(* C6 *)

\* C6 as stated: the valid flag of a parse is true exactly when the catalog
\* is non-empty and holds an entry equal to or starting with the resolved
\* platform version, or the catalog is empty and the resolved platform
\* version starts with "1.".
C6_ValidFlag ==
    [][Classifies =>
            LET known == validMinecraftVersions
                mc == result'.minecraft.version
            IN  result'.minecraft.valid =
                    IF Len(known) > 0
                    THEN \E i \in 1..Len(known) : known[i] = mc \/ StartsWith(known[i], mc)
                    ELSE StartsWith(mc, sOneDot)]_vars

----------------------------------------------------------------------------
(* C7 *)

\* C7 as stated: classifying the same filename again returns the same
\* identity, whenever the catalog fetch completes.
C7_SameIdentity ==
    [][(Parsed /\ filename' = filename) => result' = result]_vars

----------------------------------------------------------------------------
(* C8 *)

\* C8: a filename whose extension-stripped text is non-empty never gets an
\* empty name.
C8_NameNonEmpty ==
    (Parsed /\ Cleaned(filename) # <<>>) =>
        /\ result.mod.name # <<>>
        /\ result.mod.name # Null

\* C8 witness: a version token comes first, no name token precedes it, and
\* the extension-stripped filename has become the name
C8_Witness ==
    /\ Parsed
    /\ Cleaned(filename) # <<>>
    /\ LET toks == StreamOf(filename)
       IN  /\ Len(toks) >= 2
           /\ CompoundIndex(toks) = 0
           /\ IsVersion(toks[1])
    /\ result.mod.name = Cleaned(filename)

----------------------------------------------------------------------------
(* C9 *)

\* C9 as stated: no part of the returned name is a filler word or a loader
\* token.
C9_NoFillerInName ==
    Parsed =>
        LET parts == Tokenize(result.mod.name)
        IN  \A i \in 1..Len(parts) :
                ~IsExtraneous(parts[i]) /\ ~IsLoaderToken(parts[i])

----------------------------------------------------------------------------
(* C10 *)

\* s with every character from replaced by the character to
Replace(s, from, to) == [i \in 1..Len(s) |-> IF s[i] = from THEN to ELSE s[i]]

\* C10 as stated: a filename and the filename that has hyphens where it has
\* underscores tokenize alike and get the same identity.
C10_UnderscoreTwin ==
    [][Classifies =>
            LET twin == Replace(filename, "_", "-")
            IN  /\ Tokenize(Cleaned(twin)) = Tokenize(Cleaned(filename))
                /\ Parse(twin, validMinecraftVersions) = result']_vars

\* C10 amended: a filename and the filename that has hyphens where it has
\* "@" tokenize alike and get the same mod version, platform version, loader
\* and valid flag, and the same name unless the name is the extension-stripped
\* filename itself.
C10_AtTwin ==
    [][Classifies =>
            LET twin == Replace(filename, "@", "-")
                other == Parse(twin, validMinecraftVersions)
            IN  /\ Tokenize(Cleaned(twin)) = Tokenize(Cleaned(filename))
                /\ other.mod.version = result'.mod.version
                /\ other.minecraft = result'.minecraft
                /\ (result'.mod.name # Cleaned(filename) =>
                        other.mod.name = result'.mod.name)]_vars

\* C10 witness: a name and a version separated by "@", classified into the
\* name and the version
C10_Witness ==
    /\ Parsed
    /\ \E i \in 1..Len(filename) : filename[i] = "@"
    /\ LET all == Tokenize(Cleaned(filename))
       IN  /\ Len(all) = 2
           /\ IsVersion(all[2])
           /\ Cleaned(filename) = all[1] \o <<"@">> \o all[2]
           /\ result.mod.name = all[1]
           /\ result.mod.name # Cleaned(filename)

----------------------------------------------------------------------------
(* The identity key of a mod record (computeSnapshotDiff: normalizeModName, *)
(* getModKey)                                                              *)

sBeta == <<"b","e","t","a">>

\* the characters the regular expression class [-\s] matches
HyphenOrSpace == { "-", " ", "\t", "\n" }

\* String.prototype.indexOf: the first position (from 1) at which pat starts
\* in s, 0 when there is none (JavaScript: -1)
IndexOf(s, pat) ==
    LET hits == { i \in 1..(Len(s) - Len(pat) + 1) : SubSeq(s, i, i + Len(pat) - 1) = pat }
    IN  IF hits = {} THEN 0 ELSE CHOOSE i \in hits : \A j \in hits : i <= j

\* .replace(/[-\s]+$/, ''): drop the trailing run of hyphens and white space
RECURSIVE StripTrailing(_)
StripTrailing(s) ==
    IF Len(s) > 0 /\ s[Len(s)] \in HyphenOrSpace
    THEN StripTrailing(SubSeq(s, 1, Len(s) - 1))
    ELSE s

\* a JavaScript value that counts as true in a condition (for the strings and
\* nulls of a mod record)
Truthy(v) == v # Null /\ v # <<>>

NormalizeModName_NoTrim(name) ==
    LET betaIndex == IndexOf(name, sBeta)
    IN  IF betaIndex # 0
        THEN ToLowerCase(SubSeq(name, 1, betaIndex - 1))
        ELSE ToLowerCase(name)

NormalizeModName(name) ==
    LET betaIndex == IndexOf(name, sBeta)
    IN  IF betaIndex # 0
        THEN ToLowerCase(StripTrailing(SubSeq(name, 1, betaIndex - 1)))
        ELSE ToLowerCase(name)

\* mod.details && mod.details.mod && mod.details.mod.name ? ... : mod.fileName
\* (a details object without the field is a record whose field is Null)
GetModKey(mod) ==
    IF Truthy(mod.details.mod.name)
    THEN NormalizeModName(mod.details.mod.name)
    ELSE mod.fileName

\* the names the records handed to getModKey carry: a base followed by a suffix
KeyBases == { <<>>, <<"F","o","o">>, <<"F","o","o","-">>, <<"b","a","r">> }
KeySuffixes == { <<>>, <<"-","b","e","t","a","3">>, <<" ","b","e","t","a">>, <<"b","e","t","a","2">>, <<"-","B","e","t","a","3">>, <<"-","a","l","p","h","a","1">> }
KeyNames == { b \o x : b \in KeyBases, x \in KeySuffixes }
KeyFileNames == { sFooJar, sBarJar }

\* a record as gatherProfileMods builds it, reduced to what getModKey reads
KeyRecord(name, file) ==
    [fileName |-> file,
     details |-> [mod |-> [name |-> name, version |-> Null],
                  minecraft |-> [version |-> sUnknown, loader |-> sUnknown,
                                 valid |-> FALSE]]]

InitKey ==
    /\ Constructed
    /\ filename = sMyMod
    /\ result = NoResult
    /\ SnapshotIdle
    /\ LimitIdle
    /\ LoggerIdle
    /\ \E n1 \in KeyNames, n2 \in KeyNames, f1 \in KeyFileNames, f2 \in KeyFileNames :
          modPair = << KeyRecord(n1, f1), KeyRecord(n2, f2) >>
    /\ keyPair = NoKeys

\* getModKey(mod) for both records
ResolveKeys ==
    /\ modPair # NoPair
    /\ keyPair' = << GetModKey(modPair[1]), GetModKey(modPair[2]) >>
    /\ UNCHANGED <<classifierVars, modPair, diskVars, runVars, limitVars, loggerVars>>

NextKey == ResolveKeys

SpecKey == InitKey /\ [][NextKey]_vars

----------------------------------------------------------------------------
(* What the claims about the identity key speak about *)

KeysResolved == keyPair # NoKeys

NameOf(mod) == mod.details.mod.name

\* b is a, followed by at least one more character
IsProperPrefix(a, b) == Len(a) < Len(b) /\ SubSeq(b, 1, Len(a)) = a

SuffixBetween(a, b) == SubSeq(b, Len(a) + 1, Len(b))

\* a suffix that is, after optional hyphens and white space, the lower-case
\* marker "beta" and whatever follows it
IsBetaSuffix(x) ==
    LET i == IndexOf(x, sBeta)
    IN  i # 0 /\ StripTrailing(SubSeq(x, 1, i - 1)) = <<>>

EndsInHyphenOrSpace(name) == Len(name) > 0 /\ name[Len(name)] \in HyphenOrSpace

\* C11 (as stated): two records whose identity names differ only by a
\* pre-release suffix (-beta3, -Beta3, -alpha1, ...) resolve to the same key.
C11_PreReleaseSameKey ==
    KeysResolved =>
        LET n1 == NameOf(modPair[1])
            n2 == NameOf(modPair[2])
        IN  (Truthy(n1) /\ IsProperPrefix(n1, n2)
                /\ SuffixBetween(n1, n2) \in KeySuffixes)
            => keyPair[1] = keyPair[2]

\* C11 (amended): two records whose identity names differ only by a suffix
\* that starts, after optional hyphens or white space, with the lower-case
\* marker "beta" resolve to the same key, when the shorter name does not itself
\* end in a hyphen or white space (or already contains "beta").
C11_BetaSameKey ==
    KeysResolved =>
        LET n1 == NameOf(modPair[1])
            n2 == NameOf(modPair[2])
        IN  (Truthy(n1) /\ IsProperPrefix(n1, n2)
                /\ IsBetaSuffix(SuffixBetween(n1, n2))
                /\ (~EndsInHyphenOrSpace(n1) \/ IndexOf(n1, sBeta) # 0))
            => keyPair[1] = keyPair[2]

\* 'Foo' and 'Foo-beta3' were resolved, both to "foo"
C11_Witness ==
    /\ KeysResolved
    /\ NameOf(modPair[1]) = <<"F","o","o">>
    /\ NameOf(modPair[2]) = <<"F","o","o","-","b","e","t","a","3">>
    /\ keyPair[1] = <<"f","o","o">>
    /\ keyPair[2] = <<"f","o","o">>

\* C12: every record with a non-empty fileName gets a non-empty key, the
\* normalized name when the identity has a name and the raw filename otherwise,
\* and two records with different names never both get the empty key.
C12_UsableKey ==
    KeysResolved =>
        /\ \A i \in 1..2 :
              Len(modPair[i].fileName) > 0 =>
                  /\ keyPair[i] # <<>>
                  /\ keyPair[i] = IF Truthy(NameOf(modPair[i]))
                                  THEN NormalizeModName(NameOf(modPair[i]))
                                  ELSE modPair[i].fileName
        /\ (NameOf(modPair[1]) # NameOf(modPair[2]))
              => ~(keyPair[1] = <<>> /\ keyPair[2] = <<>>)

----------------------------------------------------------------------------
(* Gathering the profile folders (gatherProfileMods) *)

\* Largest number of file operations the user performs on the profile folders.
MaxEdits == 3

\* paths are kept as their sequence of segments
PathJoin(base, segment) == Append(base, segment)
Basename(p) == p[Len(p)]
ProfilePath(profile) == PathJoin(<< "profiles" >>, profile)
ModsPath(profile) == PathJoin(ProfilePath(profile), "mods")

\* stats.mtime.toISOString(): the text form of a file time
ToISOString(mtime) == << "T", mtime >>

\* parser.parse(file) for every file a folder may hold, under both states of
\* the version catalog
DetailsOf == [known \in { <<>>, Manifest } |-> [f \in ModFileSet |-> Parse(f, known)]]

\* (await fs.readdir(modsPath)).filter(file => file.endsWith('.jar'))
Readdir(files, profile) ==
    SelectSeq(ModFiles, LAMBDA f : files[profile][f] # 0 /\ EndsWith(f, sJar))

\* the loop over the files of one profile; acc carries data, allMods,
\* duplicates and the profile's mods list
RECURSIVE GatherFiles(_, _, _, _, _)
GatherFiles(profile, listing, acc, files, known) ==
    IF listing = <<>> THEN acc
    ELSE
        LET file == Head(listing)
            filePath == PathJoin(ModsPath(profile), file)
            entry == [profile |-> profile, fileName |-> file, path |-> filePath,
                      existing |-> acc.allMods[file]]
            mod == [fileName |-> file, filePath |-> filePath,
                    details |-> DetailsOf[known][file],
                    modified |-> ToISOString(files[profile][file])]
            next == IF file \in DOMAIN acc.allMods
                    THEN [acc EXCEPT !.duplicates = Append(@, entry)]
                    ELSE [acc EXCEPT
                            !.allMods = (file :> [profile |-> profile,
                                                  filePath |-> filePath]) @@ @,
                            !.mods = IF files[profile][file] < 0
                                     THEN @ ELSE Append(@, mod)]
        IN  GatherFiles(profile, Tail(listing), next, files, known)

\* the loop over the profiles, in the order given; a profile whose mods
\* folder cannot be accessed is skipped
RECURSIVE GatherProfiles(_, _, _, _, _)
GatherProfiles(profiles, acc, folders, files, known) ==
    IF profiles = <<>> THEN acc
    ELSE
        LET pushed(profile, r) ==
                IF profile \notin folders THEN acc
                ELSE [r EXCEPT !.data =
                        Append(@, [paths |-> [profile |-> ProfilePath(profile),
                                              mods |-> ModsPath(profile)],
                                   mods |-> r.mods])]
            gatherOne(profile) ==
                pushed(profile,
                       GatherFiles(profile, Readdir(files, profile),
                                   [acc EXCEPT !.mods = <<>>], files, known))
        IN  GatherProfiles(Tail(profiles), gatherOne(Head(profiles)),
                           folders, files, known)

GatherProfileMods(profiles, folders, files, known) ==
    LET returned(r) == [data |-> r.data, duplicates |-> r.duplicates]
    IN  returned(GatherProfiles(profiles,
                                [data |-> <<>>, allMods |-> <<>>,
                                 duplicates |-> <<>>, mods |-> <<>>],
                                folders, files, known))

----------------------------------------------------------------------------
(* The snapshot differ (computeSnapshotDiff) and the full report *)

\* a JavaScript Map: key/value entries in insertion order; set on a key that
\* is present replaces the value in place
MapHas(m, k) == \E i \in 1..Len(m) : m[i].key = k
MapGet(m, k) == m[CHOOSE i \in 1..Len(m) : m[i].key = k].value
MapSet(m, k, v) ==
    IF MapHas(m, k)
    THEN [i \in 1..Len(m) |-> IF m[i].key = k THEN [key |-> k, value |-> v] ELSE m[i]]
    ELSE Append(m, [key |-> k, value |-> v])

\* profiles.forEach(profile => map.set(getProfileName(profile), profile))
RECURSIVE ProfileMap(_)
ProfileMap(snapshot) ==
    IF snapshot = <<>> THEN <<>>
    ELSE LET last == snapshot[Len(snapshot)]
         IN  MapSet(ProfileMap(SubSeq(snapshot, 1, Len(snapshot) - 1)),
                    Basename(last.paths.profile), last)

\* profile.mods.forEach(mod => map.set(getModKey(mod), mod))
RECURSIVE ModMap(_)
ModMap(mods) ==
    IF mods = <<>> THEN <<>>
    ELSE LET last == mods[Len(mods)]
         IN  MapSet(ModMap(SubSeq(mods, 1, Len(mods) - 1)), GetModKey(last), last)

\* value || ""
OrEmpty(v) == IF Truthy(v) THEN v ELSE <<>>

\* the fields compared, under the names changedFields files them
FieldValue(mod, field) ==
    CASE field = "fileName" -> mod.fileName
      [] field = "modified" -> mod.modified
      [] field = "mod.name" -> OrEmpty(mod.details.mod.name)
      [] field = "mod.version" -> OrEmpty(mod.details.mod.version)
      [] field = "minecraft.version" -> OrEmpty(mod.details.minecraft.version)
      [] field = "minecraft.loader" -> OrEmpty(mod.details.minecraft.loader)

ComparedFields ==
    { "fileName", "modified", "mod.name", "mod.version", "minecraft.version",
      "minecraft.loader" }

ChangedFields_NewValue(newMod, oldMod) ==
    [field \in { g \in ComparedFields : FieldValue(newMod, g) # FieldValue(oldMod, g) }
        |-> FieldValue(newMod, field)]

\* changedFields of one key present in both maps: the old value of every
\* field that differs
ChangedFields(newMod, oldMod) ==
    [field \in { g \in ComparedFields : FieldValue(newMod, g) # FieldValue(oldMod, g) }
        |-> FieldValue(oldMod, field)]

\* one profile present in both snapshots: its added, removed and updated mods
CompareProfile(profileName, newProfile, oldProfile) ==
    LET oldMods == ModMap(oldProfile.mods)
        newMods == ModMap(newProfile.mods)
        added == SelectSeq(newMods, LAMBDA e : ~MapHas(oldMods, e.key))
        updated == SelectSeq(newMods, LAMBDA e :
                       /\ MapHas(oldMods, e.key)
                       /\ DOMAIN ChangedFields(e.value, MapGet(oldMods, e.key)) # {})
        removed == SelectSeq(oldMods, LAMBDA e : ~MapHas(newMods, e.key))
    IN  [kind |-> "changes",
         profile |-> profileName,
         addedMods |-> [i \in 1..Len(added) |-> added[i].value],
         removedMods |-> [i \in 1..Len(removed) |-> removed[i].value],
         updatedMods |-> [i \in 1..Len(updated) |->
                            [newMod |-> updated[i].value,
                             changedFields |-> ChangedFields(updated[i].value,
                                                   MapGet(oldMods, updated[i].key))]]]

\* the JavaScript undefined a missing property reads as
Undefined == << "undefined" >>
Property(object, name) == IF name \in DOMAIN object THEN object[name] ELSE Undefined

\* renderDeletedDuplicates: the entries grouped by profile, per entry the
\* lines written (a line that is not written is Undefined)
RenderDeletedDuplicates(duplicates) ==
    LET names == SelectSeq([i \in 1..Len(duplicates) |-> duplicates[i].profile],
                           LAMBDA n : TRUE)
        first == { i \in 1..Len(names) : \A j \in 1..(i - 1) : names[j] # names[i] }
        order == SelectSeq([i \in 1..Len(names) |-> IF i \in first THEN names[i] ELSE ""],
                           LAMBDA n : n # "")
        line(d) == [deletedMod |-> d.fileName,
                    originalPath |-> d.path,
                    existingMod |-> Property(d.existing, "fileName"),
                    path |-> IF "details" \in DOMAIN d.existing
                             THEN Property(d.existing.details, "filePath")
                             ELSE Undefined]
        group(n) == LET own == SelectSeq(duplicates, LAMBDA d : d.profile = n)
                    IN  [profile |-> n, entries |-> [i \in 1..Len(own) |-> line(own[i])]]
    IN  IF Len(duplicates) = 0
        THEN [kind |-> "duplicates", total |-> 0, groups |-> <<>>]
        ELSE [kind |-> "duplicates", total |-> Len(duplicates),
              groups |-> [i \in 1..Len(order) |-> group(order[i])]]

\* the report header: "Added: a, Removed: r, Updated: u | Deleted: d"
Header(a, r, u, d) ==
    [kind |-> "header", added |-> a, removed |-> r, updated |-> u, deleted |-> d]

DiffResult_Always(report) == [truthy |-> TRUE, report |-> report]

DiffResult_Deleted(report) ==
    IF Len(report) > 1 \/ report[1].deleted > 0
    THEN [truthy |-> TRUE, report |-> report] ELSE NoDifferences

\* return report.length > 2 ? generateBlock(report) : false (the header block
\* stands for the two header lines)
DiffResult(report) ==
    IF Len(report) > 1 THEN [truthy |-> TRUE, report |-> report] ELSE NoDifferences

ComputeSnapshotDiff(previous, newData, duplicates) ==
    IF ~previous.isArray \/ Len(previous.items) = 0
    THEN [truthy |-> TRUE, report |-> << Header(0, 0, 0, 0) >>]
    ELSE
        LET oldProfiles == ProfileMap(previous.items)
            newProfiles == ProfileMap(newData)
            addedP == SelectSeq(newProfiles, LAMBDA e : ~MapHas(oldProfiles, e.key))
            removedP == SelectSeq(oldProfiles, LAMBDA e : ~MapHas(newProfiles, e.key))
            commonP == SelectSeq(newProfiles, LAMBDA e : MapHas(oldProfiles, e.key))
            compared == [i \in 1..Len(commonP) |->
                            CompareProfile(commonP[i].key, commonP[i].value,
                                           MapGet(oldProfiles, commonP[i].key))]
            changed == SelectSeq(compared, LAMBDA b :
                           Len(b.addedMods) + Len(b.removedMods) + Len(b.updatedMods) > 0)
            count(field) == Cardinality({ i \in 1..Len(changed) : Len(changed[i][field]) > 0 })
            body == [i \in 1..Len(addedP) |->
                        [kind |-> "new-profile", profile |-> addedP[i].key,
                         mods |-> addedP[i].value.mods]]
                    \o [i \in 1..Len(removedP) |->
                        [kind |-> "removed-profile", profile |-> removedP[i].key,
                         mods |-> removedP[i].value.mods]]
                    \o changed
            header == Header(count("addedMods"), count("removedMods"),
                             count("updatedMods"), Len(duplicates))
        IN  DiffResult(<< header >> \o body
                       \o (IF Len(body) > 0
                           THEN << RenderDeletedDuplicates(duplicates) >> ELSE <<>>))

\* buildSnapshotContent: the full-inventory report
BuildSnapshotContent(snapshot, duplicates) ==
    << [kind |-> "full-header", deleted |-> Len(duplicates)] >>
    \o (IF Len(snapshot) = 0
        THEN << [kind |-> "no-data"] >>
        ELSE [i \in 1..Len(snapshot) |->
                 [kind |-> "profile", profile |-> Basename(snapshot[i].paths.profile),
                  mods |-> snapshot[i].mods]]
             \o << RenderDeletedDuplicates(duplicates) >>)

\* getPreviousSnapshot: what it returns, and latest_snapshot.json afterwards
GetPreviousSnapshot(latest, newData) ==
    IF latest.exists /\ latest.json # "unparseable"
    THEN [value |-> IF latest.json = "object" THEN EmptyObject
                    ELSE [isArray |-> TRUE, items |-> latest.content],
          latest |-> latest]
    ELSE [value |-> EmptyObject,
          latest |-> [exists |-> TRUE, json |-> "snapshot", content |-> newData]]

\* getProfileName(profile) throws a TypeError on an entry without paths, and
\* computeSnapshotDiff calls it on every entry of a non-empty previous array
GetProfileNameThrows(previous) ==
    /\ previous.isArray
    /\ \E i \in 1..Len(previous.items) : "paths" \notin DOMAIN previous.items[i]

SnapshotCommit_AlwaysDiff(diff, data, duplicates) ==
    [kind |-> "diff", content |-> diff.report]

\* createSnapshot: the diff report when there are differences, else the full one
SnapshotCommit(diff, data, duplicates) ==
    IF diff.truthy
    THEN [kind |-> "diff", content |-> diff.report]
    ELSE [kind |-> "full", content |-> BuildSnapshotContent(data, duplicates)]

\* deleteDuplicates: the files left after unlinking every duplicate outside
\* "1. Library"
DeleteDuplicates(files, duplicates) ==
    [p \in ProfileSet |-> [f \in ModFileSet |->
        IF /\ p # "1. Library"
           /\ \E i \in 1..Len(duplicates) :
                 duplicates[i].path = PathJoin(ModsPath(p), f)
        THEN 0 ELSE files[p][f]]]

----------------------------------------------------------------------------
(* The state machine of the snapshot runs: the user changes the profile       *)
(* folders between runs of the program; a run (pre-launch hook) creates one   *)
(* snapshot                                                                  *)

InitSnapshot ==
    /\ Constructed
    /\ filename = sMyMod
    /\ result = NoResult
    /\ KeyIdle
    /\ SnapshotIdle
    /\ LimitIdle
    /\ LoggerIdle

\* the user copies a jar into a profile's mods folder, or overwrites it
\* there: the file gets a new time
PutFile(p, f) ==
    /\ pc = "exited"
    /\ edits < MaxEdits
    /\ edits' = edits + 1
    /\ modsFolders' = modsFolders \cup {p}
    /\ jarFiles' = [jarFiles EXCEPT ![p][f] = IF @ = 1 THEN 2 ELSE 1]
    /\ UNCHANGED <<classifierVars, keyVars, limitVars, loggerVars,
                   latestSnapshot, snapshotCommit, runVars>>

\* the user leaves a directory entry that readdir lists and fs.stat cannot
\* read (a link to a jar that is not there)
PutDanglingLink(p, f) ==
    /\ pc = "exited"
    /\ edits < MaxEdits
    /\ jarFiles[p][f] >= 0
    /\ edits' = edits + 1
    /\ modsFolders' = modsFolders \cup {p}
    /\ jarFiles' = [jarFiles EXCEPT ![p][f] = -1]
    /\ UNCHANGED <<classifierVars, keyVars, limitVars, loggerVars,
                   latestSnapshot, snapshotCommit, runVars>>

\* the user deletes a jar
RemoveFile(p, f) ==
    /\ pc = "exited"
    /\ edits < MaxEdits
    /\ jarFiles[p][f] # 0
    /\ edits' = edits + 1
    /\ jarFiles' = [jarFiles EXCEPT ![p][f] = 0]
    /\ UNCHANGED <<classifierVars, keyVars, limitVars, loggerVars,
                   modsFolders, latestSnapshot, snapshotCommit,
                   runVars>>

\* the user deletes a profile folder
RemoveProfile(p) ==
    /\ pc = "exited"
    /\ edits < MaxEdits
    /\ p \in modsFolders
    /\ edits' = edits + 1
    /\ modsFolders' = modsFolders \ {p}
    /\ jarFiles' = [jarFiles EXCEPT ![p] = [f \in ModFileSet |-> 0]]
    /\ UNCHANGED <<classifierVars, keyVars, limitVars, loggerVars,
                   latestSnapshot, snapshotCommit, runVars>>

\* latest_snapshot.json is damaged between two runs
CorruptLatest(json) ==
    /\ pc = "exited"
    /\ edits < MaxEdits
    /\ edits' = edits + 1
    /\ latestSnapshot' = [exists |-> TRUE, json |-> json,
                          content |-> IF json = "entries" THEN << NotAProfile >> ELSE <<>>]
    /\ UNCHANGED <<classifierVars, keyVars, limitVars, loggerVars,
                   modsFolders, jarFiles, snapshotCommit, runVars>>

\* the program starts: the module constructs its parser, whose fetch is pending
Launch ==
    /\ pc = "exited"
    /\ pc' = "started"
    /\ UNCHANGED <<classifierVars, keyVars, limitVars, loggerVars,
                   diskVars, gathered, previousSnapshot,
                   differences>>

\* the manifest arrives before the snapshot is gathered (a request that
\* fails leaves the catalog as empty as one still pending, and after the
\* gathering nothing reads the catalog)
CatalogArrives == pc = "started" /\ FetchResolve

\* createSnapshot: gatherProfileMods(Profiles_Path, Profiles, session)
Gather ==
    /\ pc = "started"
    /\ gathered' = GatherProfileMods(Profiles, modsFolders, jarFiles,
                                     validMinecraftVersions)
    /\ pc' = "gathered"
    /\ UNCHANGED <<classifierVars, keyVars, limitVars, loggerVars,
                   diskVars, previousSnapshot, differences>>

\* createSnapshot: getPreviousSnapshot, then computeSnapshotDiff
ComputeDiff ==
    /\ pc = "gathered"
    /\ LET diffed(prev) ==
               /\ previousSnapshot' = prev.value
               /\ latestSnapshot' = prev.latest
               /\ IF GetProfileNameThrows(prev.value)
                  THEN differences' = NoDifferences /\ pc' = "thrown"
                  ELSE /\ differences' = ComputeSnapshotDiff(prev.value, gathered.data,
                                                             gathered.duplicates)
                       /\ pc' = "diffed"
       IN  diffed(GetPreviousSnapshot(latestSnapshot, gathered.data))
    /\ UNCHANGED <<classifierVars, keyVars, limitVars, loggerVars,
                   modsFolders, jarFiles, edits, snapshotCommit,
                   gathered>>

\* createSnapshot: deleteDuplicates when there are duplicates, choose the
\* report, saveLatestSnapshot, saveSnapshotCommit
SaveSnapshot ==
    /\ pc = "diffed"
    /\ jarFiles' = IF Len(gathered.duplicates) > 0
                   THEN DeleteDuplicates(jarFiles, gathered.duplicates)
                   ELSE jarFiles
    /\ LET named(commit) == [kind |-> commit.kind, content |-> commit.content,
                             time |-> edits]
       IN  snapshotCommit' = named(SnapshotCommit(differences, gathered.data,
                                                  gathered.duplicates))
    /\ latestSnapshot' = [exists |-> TRUE, json |-> "snapshot", content |-> gathered.data]
    /\ pc' = "saved"
    /\ UNCHANGED <<classifierVars, keyVars, limitVars, loggerVars,
                   modsFolders, edits, gathered,
                   previousSnapshot, differences>>

\* the program ends (after createSnapshot returned, or with the TypeError
\* nothing catches); what it held in memory is gone, and the next program
\* constructs a new parser
Exit ==
    /\ pc \in { "saved", "thrown" }
    /\ pc' = "exited"
    /\ validMinecraftVersions' = <<>>
    /\ fetch' = "pending"
    /\ gathered' = NothingGathered
    /\ previousSnapshot' = EmptyObject
    /\ differences' = NoDifferences
    /\ UNCHANGED <<defaultMinecraftVersion, defaultLoader, filename, result, keyVars,
                   limitVars, loggerVars,
                   diskVars>>

NextSnapshot ==
    \/ \E p \in ProfileSet : RemoveProfile(p)
    \/ \E p \in ProfileSet, f \in ModFileSet : PutFile(p, f)
    \/ \E p \in ProfileSet, f \in ModFileSet : PutDanglingLink(p, f)
    \/ \E p \in ProfileSet, f \in ModFileSet : RemoveFile(p, f)
    \/ \E json \in { "unparseable", "object", "entries" } : CorruptLatest(json)
    \/ Launch
    \/ CatalogArrives
    \/ Gather
    \/ ComputeDiff
    \/ SaveSnapshot
    \/ Exit

SpecSnapshot == InitSnapshot /\ [][NextSnapshot]_vars

----------------------------------------------------------------------------
(* What the claims about gathering, diffing and reporting speak about *)

Range(seq) == { seq[i] : i \in 1..Len(seq) }

\* gatherProfileMods has returned and the folders are still as it read them
Gathered == pc \in { "gathered", "diffed" }

\* computeSnapshotDiff has returned
Diffed == pc \in { "diffed", "saved" }

\* the profile maps went past the first-snapshot return
Compared == Diffed /\ previousSnapshot.isArray /\ Len(previousSnapshot.items) > 0

ProfileNames(snapshot) == { Basename(snapshot[i].paths.profile) : i \in 1..Len(snapshot) }

\* the inventory a snapshot holds for a profile (the last entry of that name)
ModsOf(snapshot, name) ==
    LET hits == { i \in 1..Len(snapshot) : Basename(snapshot[i].paths.profile) = name }
    IN  snapshot[CHOOSE i \in hits : \A j \in hits : j <= i].mods

CommonProfiles == ProfileNames(previousSnapshot.items) \cap ProfileNames(gathered.data)

\* what the returned report says about a profile present in both snapshots
NoChanges == [addedMods |-> <<>>, removedMods |-> <<>>, updatedMods |-> <<>>]
Reported(name) ==
    LET report == differences.report
        hits == { i \in 1..Len(report) :
                     report[i].kind = "changes" /\ report[i].profile = name }
    IN  IF hits = {} THEN NoChanges ELSE report[CHOOSE i \in hits : TRUE]

Keys(mods) == { GetModKey(mods[i]) : i \in 1..Len(mods) }

\* the record a key stands for in an inventory: the last one that resolves to it
LastWithKey(mods, k) ==
    LET hits == { i \in 1..Len(mods) : GetModKey(mods[i]) = k }
    IN  mods[CHOOSE i \in hits : \A j \in hits : j <= i]

\* the value a record holds in a compared field
RawValue(mod, field) ==
    CASE field = "fileName" -> mod.fileName
      [] field = "modified" -> mod.modified
      [] field = "mod.name" -> mod.details.mod.name
      [] field = "mod.version" -> mod.details.mod.version
      [] field = "minecraft.version" -> mod.details.minecraft.version
      [] field = "minecraft.loader" -> mod.details.minecraft.loader

Differing(n, o) == { f \in ComparedFields : RawValue(n, f) # RawValue(o, f) }

\* C13: in a profile present in both snapshots every record of the current
\* inventory is reported as added, reported as updated, or has an unchanged
\* previous record of its key; every record of the previous inventory is
\* reported as removed or has a current record of its key.
C13_NoSilentOverwrite ==
    Compared =>
        \A name \in CommonProfiles :
            LET new == ModsOf(gathered.data, name)
                old == ModsOf(previousSnapshot.items, name)
                rep == Reported(name)
            IN  /\ \A n \in Range(new) :
                      \/ n \in Range(rep.addedMods)
                      \/ \E u \in Range(rep.updatedMods) : u.newMod = n
                      \/ \E o \in Range(old) :
                            GetModKey(o) = GetModKey(n) /\ Differing(n, o) = {}
                /\ \A o \in Range(old) :
                      \/ o \in Range(rep.removedMods)
                      \/ \E n \in Range(new) : GetModKey(n) = GetModKey(o)

\* the two snapshots handed to the differ are the same array
Identical == previousSnapshot.isArray /\ previousSnapshot.items = gathered.data

\* C14 (as stated): diffing two identical snapshots returns the 'no
\* differences' marker, also for the snapshot without profiles.
C14_IdenticalNoDifferences ==
    (Diffed /\ Identical) => ~differences.truthy

\* C14 (amended): diffing two identical snapshots that hold at least one
\* profile returns the 'no differences' marker (no added, removed or updated
\* entry in any profile).
C14_IdenticalNonEmpty ==
    (Diffed /\ Identical /\ Len(gathered.data) > 0) => differences = NoDifferences

\* a snapshot with a mod in it was diffed against itself: no differences
C14_Witness ==
    /\ Diffed /\ Identical
    /\ \E i \in 1..Len(gathered.data) : Len(gathered.data[i].mods) > 0
    /\ ~differences.truthy

\* the current snapshot is the previous one with the modified time of the
\* k-th mod of the i-th profile changed, and nothing else
OnlyTouched(i, k) ==
    LET old == previousSnapshot.items
        new == gathered.data
    IN  /\ previousSnapshot.isArray
        /\ Len(new) = Len(old)
        /\ \A j \in 1..Len(old) :
              /\ new[j].paths = old[j].paths
              /\ Len(new[j].mods) = Len(old[j].mods)
              /\ \A m \in 1..Len(old[j].mods) :
                    IF j = i /\ m = k
                    THEN /\ new[j].mods[m].modified # old[j].mods[m].modified
                         /\ new[j].mods[m] =
                               [old[j].mods[m] EXCEPT !.modified = new[j].mods[m].modified]
                    ELSE new[j].mods[m] = old[j].mods[m]

\* C15: diffing a snapshot against a copy in which exactly one mod's modified
\* time was changed reports exactly one updated entry, in that mod's profile,
\* whose changedFields holds only the old modified time, and nothing added or
\* removed anywhere.
C15_OneTouchOneUpdate ==
    Diffed =>
        \A i \in 1..Len(previousSnapshot.items) :
            \A k \in 1..Len(previousSnapshot.items[i].mods) :
                OnlyTouched(i, k) =>
                    LET old == previousSnapshot.items[i].mods[k]
                        new == gathered.data[i].mods[k]
                        report == differences.report
                        blocks == { b \in 2..Len(report) : report[b].kind # "duplicates" }
                    IN  /\ differences.truthy
                        /\ \A b \in blocks :
                              /\ report[b].kind = "changes"
                              /\ report[b].profile =
                                    Basename(previousSnapshot.items[i].paths.profile)
                              /\ report[b].addedMods = <<>>
                              /\ report[b].removedMods = <<>>
                              /\ report[b].updatedMods =
                                    << [newMod |-> new,
                                        changedFields |-> ("modified" :> old.modified)] >>
                        /\ Cardinality(blocks) = 1

\* what the report says about every key of a profile present in both
\* snapshots, with changedFields showing the old value through shown
KeyReports(name, shown(_)) ==
    LET new == ModsOf(gathered.data, name)
        old == ModsOf(previousSnapshot.items, name)
        rep == Reported(name)
        updatesOf(n) == { u \in Range(rep.updatedMods) : u.newMod = n }
    IN  /\ \A k \in Keys(new) \cap Keys(old) :
              LET n == LastWithKey(new, k)
                  o == LastWithKey(old, k)
              IN  /\ (Differing(n, o) # {}) <=> (updatesOf(n) # {})
                  /\ \A u \in updatesOf(n) :
                        /\ DOMAIN u.changedFields = Differing(n, o)
                        /\ \A f \in Differing(n, o) :
                              u.changedFields[f] = shown(RawValue(o, f))
                  /\ n \notin Range(rep.addedMods)
                  /\ o \notin Range(rep.removedMods)
        /\ \A k \in Keys(new) \ Keys(old) :
              /\ LastWithKey(new, k) \in Range(rep.addedMods)
              /\ updatesOf(LastWithKey(new, k)) = {}
        /\ \A k \in Keys(old) \ Keys(new) :
              LastWithKey(old, k) \in Range(rep.removedMods)
        /\ Len(rep.addedMods) = Cardinality(Keys(new) \ Keys(old))
        /\ Len(rep.removedMods) = Cardinality(Keys(old) \ Keys(new))

AsIs(v) == v

ProfilesWith(field) ==
    Cardinality({ name \in CommonProfiles : Len(Reported(name)[field]) > 0 })

\* C17: the header of every report computeSnapshotDiff returns carries the
\* numbers of profiles with at least one added, removed and updated mod, and a
\* Deleted figure equal to the number of duplicate entries supplied.
C17_HeaderFigures ==
    (Diffed /\ differences.truthy) =>
        differences.report[1] =
            Header(ProfilesWith("addedMods"), ProfilesWith("removedMods"),
                   ProfilesWith("updatedMods"), Len(gathered.duplicates))

\* no profile was added or removed, no common profile has an added, removed
\* or updated mod, and there are no duplicates
NothingChanged ==
    LET old == previousSnapshot.items
        new == gathered.data
    IN  /\ ProfileNames(old) = ProfileNames(new)
        /\ \A name \in ProfileNames(new) :
              /\ Keys(ModsOf(old, name)) = Keys(ModsOf(new, name))
              /\ \A k \in Keys(ModsOf(new, name)) :
                    Differing(LastWithKey(ModsOf(new, name), k),
                              LastWithKey(ModsOf(old, name), k)) = {}
        /\ Len(gathered.duplicates) = 0

\* C18 (as stated): when nothing changed and there are no duplicates,
\* computeSnapshotDiff returns the 'no differences' marker and createSnapshot
\* writes a full-inventory report.
C18_NothingChangedFull ==
    (pc = "saved" /\ NothingChanged) =>
        (~differences.truthy /\ snapshotCommit.kind = "full")

\* C18 (amended): the same when the previous snapshot is an array with at least
\* one profile (without one, the header-only first-snapshot report is returned
\* and written as a diff report).
C18_NothingChangedAfterFirst ==
    (pc = "saved" /\ NothingChanged /\ previousSnapshot.isArray
        /\ Len(previousSnapshot.items) > 0) =>
        (~differences.truthy /\ snapshotCommit.kind = "full")

\* a run over unchanged folders with a mod in them wrote a full report
C18_Witness ==
    /\ pc = "saved" /\ NothingChanged
    /\ previousSnapshot.isArray
    /\ \E i \in 1..Len(gathered.data) : Len(gathered.data[i].mods) > 0
    /\ snapshotCommit.kind = "full"

\* the profiles, in the caller's order, whose mods folder lists the file
Holders(f) == SelectSeq(Profiles, LAMBDA p : p \in modsFolders /\ jarFiles[p][f] # 0)

\* C19: profiles are processed in the caller's order; a file name present in
\* several profiles is kept in the inventory of the first such profile, and
\* each later profile holding it yields exactly one DuplicateEntry naming that
\* profile, the file's path there, and the first owner.
C19_FirstProfileOwns ==
    Gathered =>
        /\ \A i, j \in 1..Len(gathered.data) :
              i < j =>
                  \E a, b \in 1..Len(Profiles) :
                      /\ a < b
                      /\ Profiles[a] = Basename(gathered.data[i].paths.profile)
                      /\ Profiles[b] = Basename(gathered.data[j].paths.profile)
        /\ \A f \in ModFileSet :
              Len(Holders(f)) >= 2 =>
                  LET owner == Holders(f)[1]
                  IN  /\ \E m \in Range(ModsOf(gathered.data, owner)) : m.fileName = f
                      /\ \A q \in Range(Tail(Holders(f))) :
                            /\ \A m \in Range(ModsOf(gathered.data, q)) : m.fileName # f
                            /\ Cardinality({ d \in 1..Len(gathered.duplicates) :
                                    /\ gathered.duplicates[d].profile = q
                                    /\ gathered.duplicates[d].fileName = f }) = 1
                            /\ \A d \in Range(gathered.duplicates) :
                                  (d.profile = q /\ d.fileName = f) =>
                                      /\ d.path = PathJoin(ModsPath(q), f)
                                      /\ d.existing.profile = owner
                                      /\ d.existing.filePath = PathJoin(ModsPath(owner), f)

\* C20: for every DuplicateEntry of the gathering, the duplicates section of
\* the written report lists, under the entry's profile, the deleted file name,
\* its original path, and the surviving owner's file name and path.
C20_DuplicatesSection ==
    pc = "saved" =>
        \A b \in Range(snapshotCommit.content) :
            b.kind = "duplicates" =>
                \A d \in Range(gathered.duplicates) :
                    \E g \in Range(b.groups) :
                        /\ g.profile = d.profile
                        /\ \E e \in Range(g.entries) :
                              /\ e.deletedMod = d.fileName
                              /\ e.originalPath = d.path
                              /\ e.existingMod = Basename(d.existing.filePath)
                              /\ e.path = d.existing.filePath

\* the run found latest_snapshot.json missing, unparseable or not a snapshot
DamagedPrevious == ~previousSnapshot.isArray \/ GetProfileNameThrows(previousSnapshot)

\* C21: a run that finds latest_snapshot.json missing, unparseable or otherwise
\* corrupt does not throw, gets the header-only first-snapshot report from
\* computeSnapshotDiff, and has overwritten the file with the current snapshot
\* when it returns.
C21_CorruptNeverFatal ==
    (pc \in { "diffed", "saved", "thrown" } /\ DamagedPrevious) =>
        /\ pc # "thrown"
        /\ differences.truthy
        /\ Len(differences.report) = 1
        /\ differences.report[1].kind = "header"
        /\ pc = "saved" =>
              latestSnapshot = [exists |-> TRUE, json |-> "snapshot",
                                content |-> gathered.data]

\* a run returned before, and the user has done nothing since
SecondRunUnchanged == snapshotCommit.kind # "none" /\ snapshotCommit.time = edits

\* C22: every run leaves the gathered snapshot as latest_snapshot.json when it
\* returns, and a second run over unchanged profile folders with at least one
\* profile compares against exactly that snapshot, finds no differences and
\* writes a full-inventory report.
C22_SecondRunFull ==
    [][(pc = "diffed" /\ pc' = "saved") =>
          /\ latestSnapshot' = [exists |-> TRUE, json |-> "snapshot",
                                content |-> gathered.data]
          /\ (SecondRunUnchanged /\ Len(gathered.data) > 0) =>
                /\ previousSnapshot.isArray
                /\ previousSnapshot.items = gathered.data
                /\ ~differences.truthy
                /\ snapshotCommit'.kind = "full"]_vars

\* the profiles whose gathered mods list holds the file name
Listing(f) ==
    { i \in 1..Len(gathered.data) :
         \E m \in Range(gathered.data[i].mods) : m.fileName = f }

\* C27: after gatherProfileMods every file name is in the mods list of at most
\* one profile, and the file name of every DuplicateEntry is in the mods list
\* of exactly one profile, whether or not the stat of some file failed.
C27_SingleOwner ==
    Gathered =>
        /\ \A f \in ModFileSet : Cardinality(Listing(f)) <= 1
        /\ \A d \in Range(gathered.duplicates) : Cardinality(Listing(d.fileName)) = 1

\* the paths a written report lists as deleted duplicates
ListedDeleted(commit) ==
    { e.originalPath : e \in UNION { Range(g.entries) :
          g \in UNION { Range(b.groups) :
              b \in { c \in Range(commit.content) : c.kind = "duplicates" } } } }

\* the Deleted figure of a written report's header
DeletedFigure(commit) == commit.content[1].deleted

\* the paths of the files a step removes from the mods folders
Unlinked(before, after) ==
    { PathJoin(ModsPath(p), f) : <<p, f>> \in
        { pf \in ProfileSet \X ModFileSet :
            before[pf[1]][pf[2]] # 0 /\ after[pf[1]][pf[2]] = 0 } }

\* C28: in every createSnapshot run the files deleteDuplicates removes are the
\* files the written report lists as deleted, and the report's Deleted figure
\* is the number of files removed.
C28_ReportMatchesDeletion ==
    [][(pc = "diffed" /\ pc' = "saved") =>
          /\ ListedDeleted(snapshotCommit') = Unlinked(jarFiles, jarFiles')
          /\ DeletedFigure(snapshotCommit') = Cardinality(Unlinked(jarFiles, jarFiles'))]_vars

\* the two snapshots hold the same profiles, and every common profile the
\* same keys with the same compared fields
NoProfileOrModChange ==
    LET old == previousSnapshot.items
        new == gathered.data
    IN  /\ ProfileNames(old) = ProfileNames(new)
        /\ \A name \in ProfileNames(new) :
              /\ Keys(ModsOf(old, name)) = Keys(ModsOf(new, name))
              /\ \A k \in Keys(ModsOf(new, name)) :
                    Differing(LastWithKey(ModsOf(new, name), k),
                              LastWithKey(ModsOf(old, name), k)) = {}

ProfileSections == { "new-profile", "removed-profile", "changes" }

\* C29: against a non-empty previous snapshot with no added or removed profile
\* and no mod change in a common profile, computeSnapshotDiff returns false
\* whatever the duplicates list holds; and a report it returns carries a
\* Deleted Duplicates section only together with at least one profile section.
C29_DuplicatesAlone ==
    Diffed =>
        /\ (Compared /\ NoProfileOrModChange) => ~differences.truthy
        /\ (\E b \in Range(differences.report) : b.kind = "duplicates") =>
              \E b \in Range(differences.report) : b.kind \in ProfileSections

\* nothing changed since the previous snapshot but a duplicate was found, and
\* the differ returned false
C29_Witness ==
    /\ Compared /\ NoProfileOrModChange
    /\ Len(gathered.duplicates) > 0
    /\ ~differences.truthy

----------------------------------------------------------------------------
(* The snapshots folder and its limit (limitHandler.js). initializePaths has  *)
(* created the folder before anything below runs, and every report in it can *)
(* be stat'ed; the reports are named by the second they are written in, so    *)
(* no two have the same name or birthtime.                                    *)

\* file.endsWith('.txt')
EndsWithTxt(file) == Len(file) > 0 /\ file[Len(file)] = ".txt"

\* (await fs.readdir(Snapshots_Folder)).filter(file => file.endsWith('.txt'))
Snapshots(folder) == { file \in DOMAIN folder : folder[file] # 0 /\ EndsWithTxt(file) }

\* validFiles sorted by createdAt, oldest first: its first element
OldestFile(folder, validFiles) ==
    CHOOSE file \in validFiles : \A other \in validFiles : folder[file] <= folder[other]

\* snapshotLimit: the folder it leaves
SnapshotLimit(folder, maximum) ==
    LET snapshots == Snapshots(folder)
    IN  IF Cardinality(snapshots) < maximum THEN folder
        ELSE IF snapshots = {} THEN folder
        ELSE [folder EXCEPT ![OldestFile(folder, snapshots)] = 0]

\* fs.writeFile: a new file is born now, an existing one keeps its birthtime
WriteFile(folder, file, time) ==
    [folder EXCEPT ![file] = IF @ = 0 THEN time ELSE @]

\* the reports earlier runs left: per second at most one, born in that second
OldReports(kinds) ==
    [file \in SnapshotFiles |->
        IF \E time \in 1..MaxOld : file = SnapshotFileName(kinds[time], time)
        THEN file[3]
        ELSE IF file = LatestSnapshotFile /\ \E time \in 1..MaxOld : kinds[time] # "none"
        THEN 1
        ELSE 0]

InitLimit ==
    /\ Constructed
    /\ filename = sMyMod
    /\ result = NoResult
    /\ KeyIdle
    /\ SnapshotIdle
    /\ LoggerIdle
    /\ \E kinds \in [1..MaxOld -> { "none", "diff", "full" }] :
          snapshotsFolder = OldReports(kinds)
    /\ Maximum_Snapshots \in 0..MaxMaximum
    /\ now = MaxOld + 1
    /\ limitCall = NoCall

\* initializeSnapshots: with a new settings file the user is asked for the
\* limit (a number, at least 0); then snapshotLimit
InitializeSnapshots(isNew, maximumSnapshots) ==
    /\ Maximum_Snapshots' = IF isNew THEN maximumSnapshots ELSE Maximum_Snapshots
    /\ snapshotsFolder' = SnapshotLimit(snapshotsFolder, Maximum_Snapshots')
    /\ limitCall' = [called |-> TRUE, by |-> "initializeSnapshots",
                     found |-> snapshotsFolder, written |-> NoFile]
    /\ UNCHANGED <<classifierVars, keyVars, diskVars, runVars, now, loggerVars>>

\* createSnapshot, from saveLatestSnapshot on: latest_snapshot.json and the
\* report named by the clock are written, then snapshotLimit; the process has
\* run initializeSnapshots before, and the next run is a later second
SaveSnapshotCommit(kind) ==
    /\ limitCall.by = "initializeSnapshots"
    /\ now <= MaxOld + MaxRuns
    /\ LET snapshotFileName == SnapshotFileName(kind, now)
           limited(folder) ==
               /\ snapshotsFolder' = SnapshotLimit(folder, Maximum_Snapshots)
               /\ limitCall' = [called |-> TRUE, by |-> "createSnapshot",
                                found |-> folder, written |-> snapshotFileName]
       IN  limited(WriteFile(WriteFile(snapshotsFolder, LatestSnapshotFile, now),
                             snapshotFileName, now))
    /\ now' = now + 1
    /\ UNCHANGED <<classifierVars, keyVars, diskVars, runVars, Maximum_Snapshots,
                   loggerVars>>

NextLimit ==
    \/ \E isNew \in BOOLEAN, maximumSnapshots \in 0..MaxMaximum :
          InitializeSnapshots(isNew, maximumSnapshots)
    \/ \E kind \in { "diff", "full" } : SaveSnapshotCommit(kind)

SpecLimit == InitLimit /\ [][NextLimit]_vars

----------------------------------------------------------------------------
(* What the claims about the snapshot limit speak about *)

\* the files the last snapshotLimit call removed
RemovedByLimit == Snapshots(limitCall.found) \ Snapshots(snapshotsFolder)

\* C23: after snapshotLimit has returned, the folder holds at most
\* Maximum_Snapshots .txt files, whatever it held before, and the files the
\* call removed are the oldest by creation time.
C23_WithinLimit ==
    limitCall.called =>
        /\ Cardinality(Snapshots(snapshotsFolder)) <= Maximum_Snapshots
        /\ \A gone \in RemovedByLimit : \A kept \in Snapshots(snapshotsFolder) :
              limitCall.found[gone] <= limitCall.found[kept]

\* C30: with a limit of at least 1, the report a run has written is still in
\* the folder when the run returns.
C30_ReportSurvives ==
    (limitCall.by = "createSnapshot" /\ Maximum_Snapshots >= 1) =>
        snapshotsFolder[limitCall.written] # 0

----------------------------------------------------------------------------
(* The logger (utils/logger.js). The handlers are operators on the logger's  *)
(* state: the two global queues, the Tags and the console. A message is its   *)
(* number in the order the messages were handed over; formatMessage, the      *)
(* separators and the wrapping of flushLogs only shape the lines written.     *)

Logger ==
    [logQueue |-> globalLogQueue, groupQueue |-> globalGroupingQueue,
     tags |-> tags, console |-> console]

\* console.log of an ungrouped message, of a grouped one, of Batch Start / End
Line(kind, tag, message) == [kind |-> kind, tag |-> tag, msg |-> message]

OutputLog_Direct(L, message) ==
    [L EXCEPT !.console = Append(@, Line("message", "none", message))]

\* outputLog
OutputLog(L, message) ==
    IF Len(L.groupQueue) > 0
    THEN [L EXCEPT !.logQueue = Append(@, message)]
    ELSE [L EXCEPT !.console = Append(@, Line("message", "none", message))]

\* flushGlobalQueue
FlushGlobalQueue(L) ==
    IF Len(L.groupQueue) = 0 /\ Len(L.logQueue) > 0
    THEN [L EXCEPT !.console = @ \o [i \in 1..Len(L.logQueue) |->
                                        Line("message", "none", L.logQueue[i])],
                   !.logQueue = << >>]
    ELSE L

\* Tag.log
TagLog(L, t, message) ==
    IF L.tags[t].grouping
    THEN [L EXCEPT !.tags[t].logs = Append(@, message)]
    ELSE OutputLog(L, message)

\* the Tag becomes active and its Batch Start and separator are written
BatchStart(L, t) ==
    [L EXCEPT !.tags[t].active = TRUE,
              !.console = Append(@, Line("start", t, 0))]

\* flushLogs, separator, Batch End, grouping = false, globalGroupingQueue.shift()
BatchEnd(L, t) ==
    [L EXCEPT !.console = @ \o [i \in 1..Len(L.tags[t].logs) |->
                                   Line("grouped", t, L.tags[t].logs[i])]
                            \o << Line("end", t, 0) >>,
              !.tags[t].logs = << >>,
              !.tags[t].grouping = FALSE,
              !.groupQueue = Tail(@)]

RECURSIVE ProcessNextGrouping_NoFlush(_)
ProcessNextGrouping_NoFlush(L) ==
    IF Len(L.groupQueue) > 0
    THEN LET next == Head(L.groupQueue)
             started == IF ~L.tags[next].active THEN BatchStart(L, next) ELSE L
         IN  IF started.tags[next].finished
             THEN ProcessNextGrouping_NoFlush(BatchEnd(started, next))
             ELSE started
    ELSE L

\* processNextGrouping
RECURSIVE ProcessNextGrouping(_)
ProcessNextGrouping(L) ==
    IF Len(L.groupQueue) > 0
    THEN LET next == Head(L.groupQueue)
             started == IF ~L.tags[next].active THEN BatchStart(L, next) ELSE L
         IN  IF started.tags[next].finished
             THEN ProcessNextGrouping(BatchEnd(started, next))
             ELSE started
    ELSE FlushGlobalQueue(L)

BeginGrouping_AlwaysActive(L, t) ==
    IF L.tags[t].grouping THEN L
    ELSE LET flushed == FlushGlobalQueue(L)
         IN  BatchStart([flushed EXCEPT
                            !.tags[t] = [logs |-> << >>, grouping |-> TRUE,
                                         finished |-> FALSE, active |-> FALSE],
                            !.groupQueue = Append(@, t)], t)

\* Tag.beginGrouping
BeginGrouping(L, t) ==
    IF L.tags[t].grouping THEN L
    ELSE LET flushed == FlushGlobalQueue(L)
             pushed == [flushed EXCEPT
                           !.tags[t] = [logs |-> << >>, grouping |-> TRUE,
                                        finished |-> FALSE, active |-> FALSE],
                           !.groupQueue = Append(@, t)]
         IN  IF Head(pushed.groupQueue) = t THEN BatchStart(pushed, t) ELSE pushed

\* Tag.endGrouping
EndGrouping(L, t) ==
    IF ~L.tags[t].grouping THEN L
    ELSE LET finished == [L EXCEPT !.tags[t].finished = TRUE]
         IN  IF finished.tags[t].active
             THEN ProcessNextGrouping(BatchEnd(finished, t))
             ELSE finished

\* the logger's state after a handler
Becomes(L) ==
    /\ globalLogQueue' = L.logQueue
    /\ globalGroupingQueue' = L.groupQueue
    /\ tags' = L.tags
    /\ console' = L.console

\* logger.info / warn / error / debug (message)
LogStandardMessage ==
    /\ handed < MaxMessages
    /\ handed' = handed + 1
    /\ Becomes(OutputLog(Logger, handed + 1))
    /\ UNCHANGED <<classifierVars, keyVars, diskVars, runVars, limitVars, begun, open>>

\* tag.info / warn / error / debug (message)
TagInfo(t) ==
    /\ handed < MaxMessages
    /\ handed' = handed + 1
    /\ Becomes(TagLog(Logger, t, handed + 1))
    /\ UNCHANGED <<classifierVars, keyVars, diskVars, runVars, limitVars, begun, open>>

\* tag.beginGrouping()
CallBeginGrouping(t) ==
    /\ tags[t].grouping \/ Len(begun) < MaxGroups
    /\ Becomes(BeginGrouping(Logger, t))
    /\ begun' = IF tags[t].grouping THEN begun ELSE Append(begun, t)
    /\ open' = open \cup { t }
    /\ UNCHANGED <<classifierVars, keyVars, diskVars, runVars, limitVars, handed>>

\* tag.endGrouping()
CallEndGrouping(t) ==
    /\ Becomes(EndGrouping(Logger, t))
    /\ open' = open \ { t }
    /\ UNCHANGED <<classifierVars, keyVars, diskVars, runVars, limitVars, handed, begun>>

InitLogger ==
    /\ Constructed
    /\ filename = sMyMod
    /\ result = NoResult
    /\ KeyIdle
    /\ SnapshotIdle
    /\ LimitIdle
    /\ LoggerIdle

NextLogger ==
    \/ LogStandardMessage
    \/ \E t \in TagSet : TagInfo(t)
    \/ \E t \in TagSet : CallBeginGrouping(t)
    \/ \E t \in TagSet : CallEndGrouping(t)

SpecLogger == InitLogger /\ [][NextLogger]_vars

----------------------------------------------------------------------------
(* What the claims about the logger speak about *)

\* the ungrouped messages written so far, in the order written
UngroupedWritten(written) ==
    LET lines == SelectSeq(written, LAMBDA line : line.kind = "message")
    IN  [i \in 1..Len(lines) |-> lines[i].msg]

\* the messages are in the order they were handed over
InOriginalOrder(messages) ==
    \A i, j \in 1..Len(messages) : i < j => messages[i] < messages[j]

\* C24: a step that writes ungrouped messages ends with an empty global
\* grouping queue (none is written while a Tag grouping is in the queue), and
\* the ungrouped messages written, followed by those still held back, are in
\* the order they were handed over.
C24_UngroupedHeld ==
    [][/\ UngroupedWritten(console') # UngroupedWritten(console) =>
              globalGroupingQueue' = << >>
       /\ InOriginalOrder(UngroupedWritten(console') \o globalLogQueue')]_vars

\* an ungrouped message was held back and written after a grouped message
\* handed over later
C24_Witness ==
    \E i, j \in 1..Len(console) :
        /\ i < j
        /\ console[i].kind = "grouped"
        /\ console[j].kind = "message"
        /\ console[j].msg < console[i].msg

InQueue(t) == { i \in 1..Len(globalGroupingQueue) : globalGroupingQueue[i] = t }

\* every Tag is in the queue at most once, and exactly while its grouping
\* flag is set
QueuedWhileGrouping ==
    \A t \in TagSet :
        /\ Cardinality(InQueue(t)) <= 1
        /\ InQueue(t) # {} <=> tags[t].grouping

\* the console is a sequence of ungrouped messages and whole group blocks
\* (Batch Start, the group's messages, Batch End; the last block may still
\* be open), and the blocks come in the order of the beginGrouping calls
BlocksWhole ==
    LET starts == SelectSeq(console, LAMBDA line : line.kind = "start")
        inside(i) == /\ i > 1
                     /\ console[i - 1].kind \in { "start", "grouped" }
                     /\ console[i - 1].tag = console[i].tag
        outside(i) == i = 1 \/ console[i - 1].kind \in { "end", "message" }
    IN  /\ \A i \in 1..Len(console) :
              IF console[i].kind \in { "grouped", "end" } THEN inside(i) ELSE outside(i)
        /\ Len(starts) <= Len(begun)
        /\ \A i \in 1..Len(starts) : starts[i].tag = begun[i]

\* C25 (as stated): every Tag whose active flag is set is the head of the
\* global grouping queue (so at most one is active); a Tag is in the queue at
\* most once and exactly while grouping; group blocks are written whole, in
\* beginGrouping order, never nested.
C25_ActiveIsHead ==
    /\ \A t \in TagSet :
          tags[t].active => (globalGroupingQueue # << >> /\ Head(globalGroupingQueue) = t)
    /\ QueuedWhileGrouping
    /\ BlocksWhole

\* C25 (amended): the same for the Tags whose grouping flag is set (the active
\* flag of a Tag stays set after its grouping has ended, until its next
\* beginGrouping).
C25_ActiveGroupingIsHead ==
    /\ \A t \in TagSet :
          (tags[t].grouping /\ tags[t].active) =>
              (globalGroupingQueue # << >> /\ Head(globalGroupingQueue) = t)
    /\ QueuedWhileGrouping
    /\ BlocksWhole

\* two groupings are queued, the head active and the other waiting, after a
\* block has been written whole
C25_Witness ==
    /\ Len(globalGroupingQueue) = 2
    /\ tags[globalGroupingQueue[1]].active
    /\ ~tags[globalGroupingQueue[2]].active
    /\ \E i \in 1..Len(console) : console[i].kind = "end"

\* how often a message has been written
TimesWritten(message) ==
    Cardinality({ i \in 1..Len(console) :
                    console[i].kind \in { "message", "grouped" } /\ console[i].msg = message })

\* C26: once endGrouping has been called for every Tag beginGrouping was called
\* on, every message handed to the logger has been written exactly once, both
\* global queues are empty and the logs of every Tag are empty.
C26_AllWritten ==
    open = {} =>
        /\ \A message \in 1..handed : TimesWritten(message) = 1
        /\ globalLogQueue = << >>
        /\ globalGroupingQueue = << >>
        /\ \A t \in TagSet : tags[t].logs = << >>

\* two groupings were begun and ended, and grouped as well as ungrouped
\* messages went through
C26_Witness ==
    /\ open = {}
    /\ Len(begun) >= 2
    /\ \E i \in 1..Len(console) : console[i].kind = "grouped"
    /\ \E i \in 1..Len(console) : console[i].kind = "message"
====
